---- MODULE Spec2Model ----
(***************************************************************************)
(* Model of the LanguageLearner browser application (mbarlow/lang):        *)
(* keyboard handlers, the recording / processing pipeline, playbackCycle,  *)
(* the chunk-by-chunk Thai highlight sequencer with its Web Speech         *)
(* fallback, and the pure text chunker splitTextIntoChunks.                *)
(*                                                                         *)
(* A JavaScript string is modelled as a sequence of one-character strings, *)
(* so that length, trim and split are computed, not assumed.               *)
(***************************************************************************)
EXTENDS Integers, Sequences, FiniteSets, TLC

\* ------------------------------------------------------------------------
\* Bounds of the model
\* ------------------------------------------------------------------------
MaxTextLen == 6
MaxMaxLength == 6
\* Recordings plus SHIFT replays the user starts in one behaviour.
MaxStarts == 3

\* ------------------------------------------------------------------------
\* JavaScript string primitives
\* ------------------------------------------------------------------------
Chars == {"a", "b", " ", "\t"}

isWS(c) == c \in {" ", "\t"}

Str(n) == UNION {[1..k -> Chars] : k \in 0..n}

\* Index of the first whitespace (ws = TRUE) or non-whitespace (ws = FALSE)
\* character of s at or after position i; Len(s) + 1 when there is none.
NextAt(s, i, ws) ==
    CHOOSE j \in i..(Len(s) + 1) :
        /\ (j = Len(s) + 1 \/ isWS(s[j]) = ws)
        /\ \A k \in i..(j - 1) : isWS(s[k]) # ws

\* Index of the last non-whitespace character of s; 0 when there is none.
LastNonWS(s) ==
    CHOOSE j \in 0..Len(s) :
        /\ (j = 0 \/ ~isWS(s[j]))
        /\ \A k \in (j + 1)..Len(s) : isWS(s[k])

\* String.prototype.trim
trim(s) == SubSeq(s, NextAt(s, 1, FALSE), LastNonWS(s))

\* String.prototype.split with a separator regex matching maximal runs of
\* whitespace; keepSep is TRUE for the capturing form /(\s+)/, which also
\* returns the separators.  i is the position where the next token starts.
RECURSIVE SplitFrom(_, _, _)
SplitFrom(s, i, keepSep) ==
    LET j == NextAt(s, i, TRUE)
        token == SubSeq(s, i, j - 1)
    IN  IF j > Len(s) THEN <<token>>
        ELSE LET k == NextAt(s, j, FALSE)
                 sep == SubSeq(s, j, k - 1)
             IN  <<token>> \o (IF keepSep THEN <<sep>> ELSE <<>>)
                           \o SplitFrom(s, k, keepSep)

\* text.split(/\s+/)
SplitWS(s) == SplitFrom(s, 1, FALSE)

\* text.split(/(\s+)/)
SplitWSCapture(s) == SplitFrom(s, 1, TRUE)

\* ------------------------------------------------------------------------
\* splitTextIntoChunks (TextChunker)
\* ------------------------------------------------------------------------
\* Variant of ChunkStep that forgets the separating space when measuring.
ChunkStep_NoSeparator(acc, word, maxLength) ==
    IF Len(acc.currentChunk) + Len(word) > maxLength /\ acc.currentChunk # <<>>
    THEN [chunks |-> Append(acc.chunks, trim(acc.currentChunk)),
          currentChunk |-> word]
    ELSE [chunks |-> acc.chunks,
          currentChunk |-> IF acc.currentChunk # <<>>
                           THEN acc.currentChunk \o <<" ">> \o word
                           ELSE word]

\* One iteration of the for-loop: acc is [chunks, currentChunk].
ChunkStep(acc, word, maxLength) ==
    IF Len(acc.currentChunk) + 1 + Len(word) > maxLength /\ acc.currentChunk # <<>>
    THEN [chunks |-> Append(acc.chunks, trim(acc.currentChunk)),
          currentChunk |-> word]
    ELSE [chunks |-> acc.chunks,
          currentChunk |-> IF acc.currentChunk # <<>>
                           THEN acc.currentChunk \o <<" ">> \o word
                           ELSE word]

\* for (const word of words): the accumulator of each iteration is computed
\* once, as a value, before the next iteration uses it.
RECURSIVE ChunkLoop(_, _, _, _)
ChunkLoop(words, i, acc, maxLength) ==
    IF i > Len(words) THEN acc
    ELSE CHOOSE r \in {ChunkLoop(words, i + 1, next, maxLength) :
                          next \in {ChunkStep(acc, words[i], maxLength)}} : TRUE

\* Variant of ChunkFinish that forgets the final push.
ChunkFinish_NoFinalPush(acc) == acc.chunks

\* The final push after the loop.
ChunkFinish(acc) ==
    IF acc.currentChunk # <<>>
    THEN Append(acc.chunks, trim(acc.currentChunk))
    ELSE acc.chunks

\* Variant of FitsInOne with a strict comparison.
FitsInOne_Strict(text, maxLength) == Len(text) < maxLength

\* The early return for short text.
FitsInOne(text, maxLength) == Len(text) <= maxLength

\* const chunks = []; const words = text.split(/\s+/); let currentChunk = "";
\* the loop; the final push.
SplitLongText(text, maxLength) ==
    CHOOSE r \in {ChunkFinish(ChunkLoop(words, 1, acc, maxLength)) :
                     words \in {SplitWS(text)},
                     acc \in {[chunks |-> <<>>, currentChunk |-> <<>>]}} : TRUE

\* Variant of splitTextIntoChunks without the early return.
splitTextIntoChunks_NoEarlyReturn(text, maxLength) ==
    SplitLongText(text, maxLength)

splitTextIntoChunks(text, maxLength) ==
    IF FitsInOne(text, maxLength) THEN <<text>>
    ELSE SplitLongText(text, maxLength)

\* ------------------------------------------------------------------------
\* Inputs of the application
\* ------------------------------------------------------------------------
\* The character limit passed by speakThaiWithHighlighting.
TTSMaxLength == 200

\* A word of n characters.
LongWord(n) == [i \in 1..n |-> "a"]

\* The literal "Translation failed".
TranslationFailed ==
    <<"T", "r", "a", "n", "s", "l", "a", "t", "i", "o", "n", " ",
      "f", "a", "i", "l", "e", "d">>

\* Values of data.response returned by the translation service: an empty
\* reply, a short two-word reply with stray whitespace, and a reply
\* longer than TTSMaxLength that splits into the chunks "b aaa..." (two
\* words) and "aaa..." (one word).
OllamaReplies ==
    { <<>>,
      <<" ", "b", " ", "\t", "a", " ">>,
      <<"b", " ">> \o LongWord(150) \o <<" ", " ">> \o LongWord(60) }

\* Values of result.text returned by Whisper.
WhisperTexts == { <<" ">>, <<" ", "a", "b", " ">> }

\* ------------------------------------------------------------------------
\* State
\* ------------------------------------------------------------------------
VARIABLES
    chText,           \* splitTextIntoChunks: argument text
    chMaxLength,      \* splitTextIntoChunks: argument maxLength
    chResult,         \* splitTextIntoChunks: returned chunks
    chCalled,         \* whether the call has been made
    isRecording,      \* this.isRecording
    isProcessing,     \* this.isProcessing
    currentEnglish,   \* this.currentEnglish
    currentThai,      \* this.currentThai
    currentAudioBlob, \* this.currentAudioBlob: 0 (null) or the recording's number
    recorder,         \* mediaRecorder.state, and whether start/stop was misused
    nRec,             \* number of recordings started so far
    nShift,           \* number of playbackCycle runs started by SHIFT so far
    status,           \* class of statusEl
    errTimers,        \* pending 3-second timers armed by showError
    thaiGen,          \* which generation of WordSpans thaiEl shows (0: none)
    spans,            \* the WordSpan elements of every generation created
    procPc,           \* position of the onstop / processAudio run
    cyc,              \* the playbackCycle runs, one per slot
    synth             \* speechSynthesis: utterances whose end/error is pending

chunkVars == <<chText, chMaxLength, chResult, chCalled>>

ctlVars == <<isRecording, isProcessing, recorder, nRec, nShift>>

textVars == <<currentEnglish, currentThai, currentAudioBlob, thaiGen>>

vars == <<chunkVars, ctlVars, textVars, status, errTimers, spans, procPc, cyc, synth>>

\* Slot 1 holds the playbackCycle awaited by processAudio, the other slots
\* hold the playbackCycle runs started by SHIFT.
ProcSlot == 1

Slots == 1..MaxStarts

Gens == 1..MaxStarts

\* speechSynthesis.  Every speak() of the program directly follows a
\* cancel(), so at most one utterance is speaking: owner is the slot of the
\* run that spoke it (0: silence) and live tells whether that run's promise
\* is still unresolved.  cancelled holds the runs with an unresolved promise
\* that have a cancelled utterance whose error event is still to come.
\* Events of utterances whose run's promise is already resolved call
\* resolve again, which does nothing, and are not kept.
NoSpeech == [owner |-> 0, live |-> FALSE, cancelled |-> {}]

FreeCycle ==
    [pc |-> "free",          \* free | english | sleep | chunk | fallback | done
     au |-> "none",          \* the run's current Audio: none | requested | playing | rejected
                             \* (the recording's Audio is "requested" until it ends or fails)
     blob |-> 0,             \* the blob handed to playAudio
     thai |-> <<>>,          \* this.currentThai as read when the sequencer started
     chunks |-> <<>>,        \* const chunks
     gen |-> 0,              \* generation of the elements in const words
     chunkIndex |-> 0,       \* let chunkIndex
     requested |-> 0,        \* number of synthesis Audio objects created
     fbCalls |-> 0,          \* number of fallbackToWebSpeech calls made
     fbTexts |-> <<>>,       \* arguments of those calls
     failedAt |-> -1]        \* chunkIndex at the first chunk failure (-1: none)

SysInit ==
    /\ isRecording = FALSE
    /\ isProcessing = FALSE
    /\ currentEnglish = <<>>
    /\ currentThai = <<>>
    /\ currentAudioBlob = 0
    /\ recorder = [state |-> "inactive", misused |-> FALSE]
    /\ nRec = 0
    /\ nShift = 0
    /\ status = "ready"
    /\ errTimers = 0
    /\ thaiGen = 0
    /\ spans = [g \in Gens |-> <<>>]
    /\ procPc = "idle"
    /\ cyc = [c \in Slots |-> FreeCycle]
    /\ synth = NoSpeech

\* ------------------------------------------------------------------------
\* DOM and speech-synthesis helpers
\* ------------------------------------------------------------------------
\* Variant of displayThai that wraps every token, separators included.
displayThai_NoBlankFilter(thai) ==
    LET toks == SplitWSCapture(thai)
    IN  [k \in 1..Len(toks) |-> [dataIndex |-> k - 1, highlighted |-> FALSE]]

\* displayThai: one span per token of split(/(\s+)/) with non-blank content,
\* data-index being the token's index in that array.
displayThai(thai) ==
    LET toks == SplitWSCapture(thai)
        idx == SelectSeq([i \in 1..Len(toks) |-> i],
                         LAMBDA i : trim(toks[i]) # <<>>)
    IN  [k \in 1..Len(idx) |-> [dataIndex |-> idx[k] - 1, highlighted |-> FALSE]]

\* let wordStartIndex = 0; for (i < chunkIndex) wordStartIndex += chunks[i].split(/\s+/).length
RECURSIVE WordStartIndex(_, _)
WordStartIndex(chunks, chunkIndex) ==
    IF chunkIndex <= 0 THEN 0
    ELSE WordStartIndex(chunks, chunkIndex - 1) + Len(SplitWS(chunks[chunkIndex]))

\* chunkWords.length for the chunk at (0-based) chunkIndex
ChunkWordCount(chunks, chunkIndex) == Len(SplitWS(chunks[chunkIndex + 1]))

\* audio.onplay: highlight the spans of the chunk's range, clear the others.
\* index is the 0-based position in the NodeList.
HighlightRange(ws, start, count) ==
    [k \in 1..Len(ws) |->
        [ws[k] EXCEPT !.highlighted = (k - 1 >= start /\ k - 1 < start + count)]]

\* words.forEach(word => word.classList.remove("highlighted"))
ClearHighlights(ws) ==
    [k \in 1..Len(ws) |-> [ws[k] EXCEPT !.highlighted = FALSE]]

\* speechSynthesis.cancel(): the speaking utterance is dropped and later
\* gets its error event.
CancelAll(q) ==
    [owner |-> 0, live |-> FALSE,
     cancelled |-> IF q.owner # 0 /\ q.live THEN q.cancelled \cup {q.owner}
                   ELSE q.cancelled]

\* fallbackToWebSpeech(text) called by the run in slot c: cancel, then speak.
fallbackToWebSpeech(q, c) ==
    [CancelAll(q) EXCEPT !.owner = c, !.live = TRUE]

\* The promise of the run in slot c is resolved: later resolve calls by its
\* utterances do nothing.
Orphan(q, c) ==
    [owner |-> q.owner,
     live |-> q.live /\ q.owner # c,
     cancelled |-> q.cancelled \ {c}]

\* Garbage collection: the elements of generation g exist as long as thaiEl
\* shows them (shown = g) or the words list of a running sequencer holds them.
Collect(sp, cy, shown) ==
    [g \in Gens |->
        IF g = shown \/ \E c \in Slots : cy[c].gen = g /\ cy[c].pc \in {"chunk", "fallback"}
        THEN sp[g] ELSE <<>>]

InProgress(c) == cyc[c].pc \notin {"free", "done"}

\* ------------------------------------------------------------------------
\* processAudio: catch and finally
\* ------------------------------------------------------------------------
\* finally { isProcessing = false; updateStatus(..., "ready") }
ProcFinally ==
    /\ isProcessing' = FALSE
    /\ status' = "ready"
    /\ procPc' = "idle"

\* catch { showError(...) } finally { ... }: showError sets the error status
\* and arms the timer, the finally block overwrites the status at once.
ProcCatchFinally ==
    /\ errTimers' = errTimers + 1
    /\ ProcFinally

\* The run in slot c completes: speakThaiWithHighlighting resolves,
\* playbackCycle returns and, for the awaited run, processAudio finishes.
\* The run's closure is gone; only the count of its synthesis requests is kept.
Finish(c, cy, q, sp) ==
    /\ cyc' = [cyc EXCEPT ![c] = [FreeCycle EXCEPT !.pc = "done",
                                                    !.requested = cy.requested]]
    /\ spans' = Collect(sp, cyc', thaiGen)
    /\ synth' = Orphan(q, c)
    /\ IF c = ProcSlot
       THEN ProcFinally
       ELSE UNCHANGED <<isProcessing, status, procPc>>

\* Variant of StartedCycle in which playAudio is not awaited: the cycle is
\* at sleep(500) while the recording plays.
StartedCycle_NotAwaited == [FreeCycle EXCEPT !.pc = "sleep", !.au = "requested",
                                             !.blob = currentAudioBlob]

\* playbackCycle(): playAudio(this.currentAudioBlob) creates the Audio and
\* calls play().
StartedCycle == [FreeCycle EXCEPT !.pc = "english", !.au = "requested",
                                  !.blob = currentAudioBlob]

\* ------------------------------------------------------------------------
\* Keyboard handlers
\* ------------------------------------------------------------------------
\* reset()
Reset ==
    /\ currentEnglish' = <<>>
    /\ currentThai' = <<>>
    /\ thaiGen' = 0
    /\ spans' = Collect(spans, cyc, 0)
    /\ synth' = CancelAll(synth)

\* Variant of KeyDownSpace in which startRecording does not test isRecording.
KeyDownSpace_NoRecordingGuard ==
    IF ~isProcessing
    THEN /\ nRec + nShift < MaxStarts
         /\ isRecording' = TRUE
         /\ recorder' = [state |-> "recording",
                         misused |-> recorder.misused \/ recorder.state # "inactive"]
         /\ nRec' = nRec + 1
         /\ status' = "recording"
         /\ Reset
         /\ UNCHANGED <<isProcessing, nShift, currentAudioBlob, errTimers,
                        procPc, cyc, chunkVars>>
    ELSE UNCHANGED vars

\* keydown Space -> startRecording()
KeyDownSpace ==
    IF ~isProcessing /\ ~(isRecording \/ isProcessing)
    THEN /\ nRec + nShift < MaxStarts
         /\ isRecording' = TRUE
         /\ recorder' = [state |-> "recording",
                         misused |-> recorder.misused \/ recorder.state # "inactive"]
         /\ nRec' = nRec + 1
         /\ status' = "recording"
         /\ Reset
         /\ UNCHANGED <<isProcessing, nShift, currentAudioBlob, errTimers,
                        procPc, cyc, chunkVars>>
    ELSE UNCHANGED vars

\* keyup Space -> stopRecording()
KeyUpSpace ==
    IF isRecording
    THEN /\ isRecording' = FALSE
         /\ recorder' = [state |-> "inactive",
                         misused |-> recorder.misused \/ recorder.state # "recording"]
         /\ status' = "processing"
         /\ isProcessing' = TRUE
         /\ procPc' = "onstop"
         /\ UNCHANGED <<nRec, nShift, textVars, errTimers, spans, cyc, synth, chunkVars>>
    ELSE UNCHANGED vars

\* keydown ShiftLeft / ShiftRight -> playbackCycle()
KeyDownShift ==
    IF currentEnglish # <<>> /\ currentThai # <<>> /\ ~isProcessing
    THEN /\ nRec + nShift < MaxStarts
         /\ nShift' = nShift + 1
         /\ cyc' = [cyc EXCEPT ![ProcSlot + nShift + 1] = StartedCycle]
         /\ UNCHANGED <<isRecording, isProcessing, recorder, nRec, textVars, status,
                        errTimers, spans, procPc, synth, chunkVars>>
    ELSE UNCHANGED vars

\* ------------------------------------------------------------------------
\* mediaRecorder.onstop and processAudio
\* ------------------------------------------------------------------------
\* onstop: build the blob, call processAudio, which awaits blob.arrayBuffer()
RecorderOnStop ==
    /\ procPc = "onstop"
    /\ currentAudioBlob' = nRec
    /\ procPc' = "arrayBuffer"
    /\ UNCHANGED <<ctlVars, currentEnglish, currentThai, thaiGen, status, errTimers,
                   spans, cyc, synth, chunkVars>>

\* await blob.arrayBuffer() -> new AudioContext, decodeAudioData
ArrayBufferDone ==
    /\ procPc = "arrayBuffer"
    /\ procPc' = "decode"
    /\ UNCHANGED <<ctlVars, textVars, status, errTimers, spans, cyc, synth, chunkVars>>

\* await decodeAudioData(): on success Whisper is called, a failure throws.
DecodeDone(ok) ==
    /\ procPc = "decode"
    /\ IF ok
       THEN /\ procPc' = "whisper"
            /\ UNCHANGED <<isProcessing, status, errTimers>>
       ELSE ProcCatchFinally
    /\ UNCHANGED <<isRecording, recorder, nRec, nShift, textVars, spans, cyc, synth,
                   chunkVars>>

\* await this.whisper() throws
WhisperFails ==
    /\ procPc = "whisper"
    /\ ProcCatchFinally
    /\ UNCHANGED <<isRecording, recorder, nRec, nShift, textVars, spans, cyc, synth,
                   chunkVars>>

\* await this.whisper() returns text: empty after trim throws "No speech
\* detected", otherwise displayEnglish and translateToThai's fetch.
WhisperDone(text) ==
    /\ procPc = "whisper"
    /\ currentEnglish' = trim(text)
    /\ IF trim(text) = <<>>
       THEN ProcCatchFinally
       ELSE /\ procPc' = "translate"
            /\ UNCHANGED <<isProcessing, status, errTimers>>
    /\ UNCHANGED <<isRecording, recorder, nRec, nShift, currentThai, currentAudioBlob,
                   thaiGen, spans, cyc, synth, chunkVars>>

\* translateToThai completes: reply is the service's data.response, or the
\* request failed (ok = FALSE) and the marker text is used.  displayThai,
\* then processAudio calls playbackCycle.
TranslateDone(ok, reply) ==
    /\ procPc = "translate"
    /\ LET thai == IF ok THEN trim(reply) ELSE TranslationFailed
       IN  /\ currentThai' = thai
           /\ spans' = [spans EXCEPT ![nRec] = displayThai(thai)]
    /\ thaiGen' = nRec
    /\ cyc' = [cyc EXCEPT ![ProcSlot] = StartedCycle]
    /\ procPc' = "cycle"
    /\ UNCHANGED <<ctlVars, currentEnglish, currentAudioBlob, status, errTimers,
                   synth, chunkVars>>

\* The timer armed by showError fires.
ErrorTimerFires ==
    /\ errTimers > 0
    /\ errTimers' = errTimers - 1
    /\ status' = "ready"
    /\ UNCHANGED <<ctlVars, textVars, spans, procPc, cyc, synth, chunkVars>>

\* ------------------------------------------------------------------------
\* playbackCycle: playAudio and sleep
\* ------------------------------------------------------------------------
\* The host rejects play(): the promise returned by audio.play() rejects,
\* nothing handles it and no event follows.
EnglishPlayRejected(c) ==
    /\ cyc[c].pc = "english" /\ cyc[c].au = "requested"
    /\ cyc' = [cyc EXCEPT ![c].au = "rejected"]
    /\ UNCHANGED <<ctlVars, textVars, status, errTimers, spans, procPc, synth,
                   chunkVars>>

\* audio.onended / audio.onerror = resolve: playbackCycle goes on to sleep(500)
EnglishResolves(c) ==
    /\ cyc[c].pc = "english" /\ cyc[c].au = "requested"
    /\ cyc' = [cyc EXCEPT ![c].pc = "sleep", ![c].au = "none"]
    /\ UNCHANGED <<ctlVars, textVars, status, errTimers, spans, procPc, synth,
                   chunkVars>>

\* The recording plays to its end: audio.onended
EnglishEnded(c) == EnglishResolves(c)

\* The recording cannot be loaded or decoded, or fails while playing:
\* audio.onerror
EnglishError(c) == EnglishResolves(c)

\* ------------------------------------------------------------------------
\* speakThaiWithHighlighting (HighlightSequencer)
\* ------------------------------------------------------------------------
\* playNextChunk() for the run in slot c whose record is cy: either all
\* chunks are done (clear the highlights, resolve) or the next chunk's Audio
\* is created and play() is called.
playNextChunk(c, cy) ==
    IF cy.chunkIndex >= Len(cy.chunks)
    THEN Finish(c, cy, synth,
                [g \in Gens |->
                    IF g = cy.gen THEN ClearHighlights(spans[g]) ELSE spans[g]])
    ELSE /\ cyc' = [cyc EXCEPT ![c] = [cy EXCEPT !.pc = "chunk",
                                                 !.au = "requested",
                                                 !.requested = @ + 1]]
         /\ UNCHANGED <<spans, synth, isProcessing, status, procPc>>

\* Variant of SleepTimerFires without the early resolve for an empty or
\* untranslatable text.
SleepTimerFires_NoEarlyResolve(c) ==
    /\ cyc[c].pc = "sleep"
    /\ \E cy \in {[cyc[c] EXCEPT
                     !.thai = currentThai,
                     !.chunks = splitTextIntoChunks(currentThai, TTSMaxLength),
                     !.gen = thaiGen,
                     !.chunkIndex = 0]} :
           playNextChunk(c, cy)
    /\ UNCHANGED <<isRecording, recorder, nRec, nShift, textVars, errTimers, chunkVars>>

\* sleep(500) is over: speakThaiWithHighlighting() runs up to its first wait.
SleepTimerFires(c) ==
    /\ cyc[c].pc = "sleep"
    /\ IF currentThai = <<>> \/ currentThai = TranslationFailed
       THEN Finish(c, cyc[c], synth, spans)
       ELSE \E cy \in {[cyc[c] EXCEPT
                          !.thai = currentThai,
                          !.chunks = splitTextIntoChunks(currentThai, TTSMaxLength),
                          !.gen = thaiGen,
                          !.chunkIndex = 0]} :
                playNextChunk(c, cy)
    /\ UNCHANGED <<isRecording, recorder, nRec, nShift, textVars, errTimers, chunkVars>>

\* audio.onplay
ChunkPlayStarts(c) ==
    /\ cyc[c].pc = "chunk" /\ cyc[c].au = "requested"
    /\ cyc' = [cyc EXCEPT ![c].au = "playing"]
    /\ spans' = [spans EXCEPT ![cyc[c].gen] =
                    HighlightRange(@, WordStartIndex(cyc[c].chunks, cyc[c].chunkIndex),
                                   ChunkWordCount(cyc[c].chunks, cyc[c].chunkIndex))]
    /\ UNCHANGED <<ctlVars, textVars, status, errTimers, procPc, synth, chunkVars>>

\* Variant of ChunkEnded that moves on as soon as the chunk's audio is
\* requested, without waiting for the ended event.
ChunkEnded_WithoutWaiting(c) ==
    /\ cyc[c].pc = "chunk" /\ cyc[c].au = "requested"
    /\ \E cy \in {[cyc[c] EXCEPT !.chunkIndex = @ + 1]} : playNextChunk(c, cy)
    /\ UNCHANGED <<isRecording, recorder, nRec, nShift, textVars, errTimers, chunkVars>>

\* audio.onended: chunkIndex++; playNextChunk()
ChunkEnded(c) ==
    /\ cyc[c].pc = "chunk" /\ cyc[c].au = "playing"
    /\ \E cy \in {[cyc[c] EXCEPT !.chunkIndex = @ + 1]} : playNextChunk(c, cy)
    /\ UNCHANGED <<isRecording, recorder, nRec, nShift, textVars, errTimers, chunkVars>>

\* A chunk fails and the failure reaches n of the two handlers (audio.onerror,
\* audio.play().catch); each calls fallbackToWebSpeech(this.currentThai).
ChunkFails(c, n) ==
    /\ cyc' = [cyc EXCEPT ![c].pc = "fallback",
                          ![c].au = "none",
                          ![c].failedAt = cyc[c].chunkIndex,
                          ![c].fbCalls = @ + n,
                          ![c].fbTexts = @ \o [k \in 1..n |-> currentThai]]
    /\ synth' = IF n = 2
                THEN fallbackToWebSpeech(fallbackToWebSpeech(synth, c), c)
                ELSE fallbackToWebSpeech(synth, c)
    /\ UNCHANGED <<ctlVars, textVars, status, errTimers, spans, procPc, chunkVars>>

\* The chunk's audio cannot be loaded: the error event fires and the pending
\* play() promise rejects, in the same task.
ChunkLoadError(c) ==
    /\ cyc[c].pc = "chunk" /\ cyc[c].au = "requested"
    /\ ChunkFails(c, 2)

\* The host rejects play() (autoplay policy): only the catch handler runs.
ChunkPlayRejected(c) ==
    /\ cyc[c].pc = "chunk" /\ cyc[c].au = "requested"
    /\ ChunkFails(c, 1)

\* An error during playback, after play() resolved: only onerror runs.
ChunkPlaybackError(c) ==
    /\ cyc[c].pc = "chunk" /\ cyc[c].au = "playing"
    /\ ChunkFails(c, 1)

\* utterance.onend / utterance.onerror = resolve, for the utterance that is
\* speaking.
SpeechEvent ==
    /\ IF synth.live
       THEN Finish(synth.owner, cyc[synth.owner],
                   [synth EXCEPT !.owner = 0, !.live = FALSE], spans)
       ELSE /\ synth' = [synth EXCEPT !.owner = 0, !.live = FALSE]
            /\ UNCHANGED <<cyc, spans, isProcessing, status, procPc>>
    /\ UNCHANGED <<isRecording, recorder, nRec, nShift, textVars, errTimers, chunkVars>>

UtteranceEnds ==
    /\ synth.owner # 0
    /\ SpeechEvent

UtteranceErrors ==
    /\ synth.owner # 0
    /\ SpeechEvent

\* utterance.onerror = resolve, for a cancelled utterance of the run in slot c
CancelledUtteranceErrors(c) ==
    /\ c \in synth.cancelled
    /\ Finish(c, cyc[c], synth, spans)
    /\ UNCHANGED <<isRecording, recorder, nRec, nShift, textVars, errTimers, chunkVars>>

\* ------------------------------------------------------------------------
\* Specification of the application
\* ------------------------------------------------------------------------
ChunkIdle ==
    /\ chText = <<>>
    /\ chMaxLength = 0
    /\ chResult = <<>>
    /\ chCalled = FALSE

Init == SysInit /\ ChunkIdle

Next ==
    \/ KeyDownSpace
    \/ KeyUpSpace
    \/ KeyDownShift
    \/ RecorderOnStop
    \/ ArrayBufferDone
    \/ \E ok \in BOOLEAN : DecodeDone(ok)
    \/ WhisperFails
    \/ \E text \in WhisperTexts : WhisperDone(text)
    \/ \E ok \in BOOLEAN, reply \in OllamaReplies : TranslateDone(ok, reply)
    \/ ErrorTimerFires
    \/ \E c \in Slots : EnglishPlayRejected(c)
    \/ \E c \in Slots : EnglishEnded(c)
    \/ \E c \in Slots : EnglishError(c)
    \/ \E c \in Slots : SleepTimerFires(c)
    \/ \E c \in Slots : ChunkPlayStarts(c)
    \/ \E c \in Slots : ChunkEnded(c)
    \/ \E c \in Slots : ChunkLoadError(c)
    \/ \E c \in Slots : ChunkPlayRejected(c)
    \/ \E c \in Slots : ChunkPlaybackError(c)
    \/ UtteranceEnds
    \/ UtteranceErrors
    \/ \E c \in Slots : CancelledUtteranceErrors(c)

Spec == Init /\ [][Next]_vars

\* Everything except the key presses: the events, timers and request
\* outcomes the browser delivers to the program.
BrowserStep ==
    \/ RecorderOnStop
    \/ ArrayBufferDone
    \/ \E ok \in BOOLEAN : DecodeDone(ok)
    \/ WhisperFails
    \/ \E text \in WhisperTexts : WhisperDone(text)
    \/ \E ok \in BOOLEAN, reply \in OllamaReplies : TranslateDone(ok, reply)
    \/ ErrorTimerFires
    \/ \E c \in Slots :
        \/ EnglishPlayRejected(c)
        \/ EnglishEnded(c) \/ EnglishError(c)
        \/ SleepTimerFires(c)
        \/ ChunkPlayStarts(c) \/ ChunkEnded(c)
        \/ ChunkLoadError(c) \/ ChunkPlayRejected(c) \/ ChunkPlaybackError(c)
        \/ CancelledUtteranceErrors(c)
    \/ UtteranceEnds
    \/ UtteranceErrors

\* What the browser guarantees: a queued event or timer is eventually
\* delivered, a pending request eventually has some outcome, media that
\* plays eventually ends or fails, an utterance eventually ends or fails.
\* Nothing obliges the user to press a key.  Every step of BrowserStep moves
\* some run or request forward and none can be undone, so a behaviour
\* satisfies this condition exactly when it ends in a state where the
\* browser owes the program nothing.
Fairness == WF_vars(BrowserStep)

FairSpec == Spec /\ Fairness

\* ------------------------------------------------------------------------
\* Specification of the pure chunker: any text, any maxLength, one call
\* ------------------------------------------------------------------------
ChunkInit ==
    /\ SysInit
    /\ chText \in Str(MaxTextLen)
    /\ chMaxLength \in (-1)..MaxMaxLength
    /\ chResult = <<>>
    /\ chCalled = FALSE

CallSplit ==
    /\ ~chCalled
    /\ chResult' = splitTextIntoChunks(chText, chMaxLength)
    /\ chCalled' = TRUE
    /\ UNCHANGED <<chText, chMaxLength>>
    /\ UNCHANGED <<ctlVars, textVars, status, errTimers, spans, procPc, cyc, synth>>

ChunkNext == CallSplit

ChunkSpec == ChunkInit /\ [][ChunkNext]_vars

\* ------------------------------------------------------------------------
\* Vocabulary of the chunker claims
\* ------------------------------------------------------------------------
\* The non-empty whitespace-delimited words of a string, in order.
Words(s) == SelectSeq(SplitWS(s), LAMBDA t : t # <<>>)

\* chunks.join(" ")
RECURSIVE JoinSp(_)
JoinSp(cs) ==
    IF cs = <<>> THEN <<>>
    ELSE IF Len(cs) = 1 THEN cs[1]
    ELSE cs[1] \o <<" ">> \o JoinSp(Tail(cs))

\* Number of words in the chunks before chunk i.
RECURSIVE WordsBefore(_, _)
WordsBefore(cs, i) ==
    IF i <= 1 THEN 0 ELSE WordsBefore(cs, i - 1) + Len(Words(cs[i - 1]))

IsString(s) == DOMAIN s = 1..Len(s) /\ \A k \in 1..Len(s) : s[k] \in Chars

HasNoWS(s) == \A k \in 1..Len(s) : ~isWS(s[k])

\* C6 (as stated): on empty input the result is the empty sequence.
C6_EmptyYieldsEmpty ==
    (chCalled /\ chText = <<>>) => chResult = <<>>

\* C6 (amended): the call always returns a sequence of strings; on empty
\* input it returns the one-element sequence holding the empty string when
\* maxLength >= 0, and the empty sequence only when maxLength is negative.
C6_EmptyYieldsOneEmptyChunk ==
    chCalled =>
        /\ DOMAIN chResult = 1..Len(chResult)
        /\ \A i \in 1..Len(chResult) : IsString(chResult[i])
        /\ chText = <<>> =>
               chResult = IF chMaxLength >= 0 THEN << <<>> >> ELSE <<>>

C6_Witness ==
    chCalled /\ chText = <<>> /\ chMaxLength = 0 /\ chResult = << <<>> >>

\* C7: a text no longer than maxLength comes back as the one-element
\* sequence holding the text unchanged.
C7_ShortTextUnchanged ==
    (chCalled /\ Len(chText) <= chMaxLength) => chResult = <<chText>>

C7_Witness ==
    /\ chCalled
    /\ Len(chText) = chMaxLength
    /\ Len(chText) >= 3
    /\ isWS(chText[1])
    /\ \E k \in 1..(Len(chText) - 1) : isWS(chText[k]) /\ isWS(chText[k + 1])
    /\ chResult = <<chText>>

\* C8: every chunk is at most maxLength long unless it is one single word
\* that is itself longer than maxLength; and no word is split: the words of
\* chunk i are exactly the next words of the text, whole.
C8_ChunkLengthBound ==
    chCalled =>
        \A i \in 1..Len(chResult) :
            /\ \/ Len(chResult[i]) <= chMaxLength
               \/ (HasNoWS(chResult[i]) /\ Len(chResult[i]) > chMaxLength)
            /\ Words(chResult[i]) =
                   SubSeq(Words(chText),
                          WordsBefore(chResult, i) + 1,
                          WordsBefore(chResult, i) + Len(Words(chResult[i])))

C8_Witness ==
    /\ chCalled
    /\ Len(chResult) >= 2
    /\ chMaxLength >= 2
    /\ \E i \in 1..Len(chResult) :
           Len(chResult[i]) > chMaxLength /\ HasNoWS(chResult[i])
    /\ \E i \in 1..Len(chResult) : Len(chResult[i]) = chMaxLength

\* C9: joining the chunks with single spaces gives back the text up to
\* whitespace normalisation: the same non-empty words in the same order.
C9_JoinReconstructs ==
    chCalled => Words(JoinSp(chResult)) = Words(chText)

C9_Witness ==
    /\ chCalled
    /\ Len(chResult) >= 2
    /\ Len(Words(chText)) >= 3
    /\ JoinSp(chResult) # chText
    /\ Words(JoinSp(chResult)) = Words(chText)

\* ------------------------------------------------------------------------
\* Claims about playback and the highlight sequencer
\* ------------------------------------------------------------------------
\* A run whose sequencer promise is pending.
SequencerActive(c) == cyc[c].pc \in {"chunk", "fallback"}

Highlighted(ws) == {k \in 1..Len(ws) : ws[k].highlighted}

\* C1: every playAudio call eventually resolves, whatever the outcome of
\* the playback (ended, error event, play() rejected), so playbackCycle
\* always gets past the English step.
C1_PlayAudioResolves ==
    \A c \in Slots : (cyc[c].pc = "english") ~> (cyc[c].pc # "english")

\* C2: whenever the sequencer's promise resolves, by exhausting the chunks or
\* after a chunk failure and the fallback speech, none of its WordSpans is
\* highlighted.
C2_NoHighlightAtCompletion ==
    [][\A c \in Slots :
          (SequencerActive(c) /\ cyc'[c].pc = "done")
              => Highlighted(spans'[cyc[c].gen]) = {}]_vars

\* C3: at most one sequencer invocation is active at any time.
C3_SingleSequencer ==
    Cardinality({c \in Slots : SequencerActive(c)}) <= 1

\* C4: startRecording takes effect only when no playbackCycle is in progress.
C4_NoRecordingDuringPlayback ==
    [][(~isRecording /\ isRecording') => \A c \in Slots : ~InProgress(c)]_vars

\* C5: once chunk i has failed, no audio was or is requested for a chunk
\* after i, and every fallbackToWebSpeech call of the run was given the
\* complete text the run started with.
C5_FallbackSpeaksWholeText ==
    \A c \in Slots :
        cyc[c].pc = "fallback" =>
            /\ cyc[c].requested = cyc[c].failedAt + 1
            /\ cyc[c].fbCalls >= 1
            /\ \A k \in 1..Len(cyc[c].fbTexts) : cyc[c].fbTexts[k] = cyc[c].thai

\* The word-index range the sequencer derives for the chunk at chunkIndex:
\* wordStartIndex <= index < wordStartIndex + chunkWords.length
ChunkRange(chunks, chunkIndex) ==
    LET start == WordStartIndex(chunks, chunkIndex)
    IN  start..(start + ChunkWordCount(chunks, chunkIndex) - 1)

\* The ranges of all chunks, by 0-based chunk index.
ChunkRanges(chunks) ==
    [i \in 0..(Len(chunks) - 1) |-> ChunkRange(chunks, i)]

\* playNextChunk has just derived the range of a chunk and asked for its audio.
RangeDerived(c) == cyc[c].pc = "chunk" /\ cyc[c].au = "requested"

\* C10: whenever the sequencer derives a range, the ranges of the run's
\* chunks are non-empty, contiguous and disjoint, start at 0, end at the last
\* word, and cover exactly the positions of the WordSpans displayThai made
\* for the text.
C10_RangesCoverWordSpans ==
    \A c \in Slots :
        RangeDerived(c) =>
            \A R \in {ChunkRanges(cyc[c].chunks)},
               total \in {Len(Words(cyc[c].thai))} :
                LET n == Len(cyc[c].chunks)
                IN  /\ n >= 1
                    /\ 0 \in R[0]
                    /\ \A i \in 0..(n - 1) : R[i] # {}
                    /\ \A i \in 0..(n - 2) :
                           \E k \in R[i] : k + 1 \in R[i + 1] /\ \A m \in R[i] : m <= k
                    /\ \A i, j \in 0..(n - 1) : i # j => R[i] \cap R[j] = {}
                    /\ total - 1 \in R[n - 1] /\ total \notin R[n - 1]
                    /\ UNION {R[i] : i \in 0..(n - 1)}
                           = {k - 1 : k \in 1..Len(spans[cyc[c].gen])}

C10_Witness ==
    \E c \in Slots :
        /\ RangeDerived(c)
        /\ Len(cyc[c].chunks) = 2
        /\ cyc[c].chunkIndex = 1
        /\ ChunkRange(cyc[c].chunks, 0) = {0, 1}
        /\ ChunkRange(cyc[c].chunks, 1) = {2}
        /\ Len(spans[cyc[c].gen]) = 3

\* The chunk at the run's chunkIndex is playing: audio.onplay has run and
\* neither ended nor error has been delivered.
ChunkPlaying(c) == cyc[c].pc = "chunk" /\ cyc[c].au = "playing"

\* 0-based NodeList positions of the highlighted elements.
HighlightedPositions(ws) == {k - 1 : k \in Highlighted(ws)}

\* C11: within one sequencer run, while chunk i's audio is playing, the
\* highlighted WordSpans are exactly the positions of chunk i's range.
C11_HighlightExactlyCurrentChunk ==
    \A c \in Slots :
        ChunkPlaying(c) =>
            \A R \in {ChunkRange(cyc[c].chunks, cyc[c].chunkIndex)} :
                HighlightedPositions(spans[cyc[c].gen]) = R

\* C12: within one sequencer run the chunks are requested in index order,
\* one at a time: the k-th synthesis request is for chunk k, the first is
\* made when the sequencer starts, every later one in the step in which the
\* previous chunk's playback ends, and while a chunk is requested or playing
\* every earlier chunk has ended and no later one has been requested.
C12_ChunksInOrderNoOverlap ==
    [][\A c \in Slots :
          /\ cyc'[c].pc = "chunk" => cyc'[c].requested = cyc'[c].chunkIndex + 1
          /\ (cyc'[c].pc # "english" /\ cyc'[c].requested # cyc[c].requested) =>
                /\ cyc'[c].requested = cyc[c].requested + 1
                /\ cyc'[c].pc = "chunk" /\ cyc'[c].au = "requested"
                /\ cyc'[c].chunkIndex = cyc[c].requested
                /\ \/ cyc[c].pc = "sleep" /\ cyc[c].requested = 0
                   \/ ChunkPlaying(c) /\ cyc'[c].chunkIndex = cyc[c].chunkIndex + 1
      ]_vars

C12_Witness ==
    \E c \in Slots :
        /\ ChunkPlaying(c)
        /\ Len(cyc[c].chunks) = 2
        /\ cyc[c].chunkIndex = 1
        /\ cyc[c].requested = 2

\* The run whose record is r has entered its Thai step
\* (speakThaiWithHighlighting).
ThaiStepEntered(r) == r.pc \in {"chunk", "fallback", "done"}

\* C13: within one playback cycle, started by processAudio or by SHIFT, the
\* delay starts only when the playback of the recording has completed (ended
\* or error), the Thai step starts only when the delay has elapsed, and no
\* Thai synthesis or fallback speech has been requested while the cycle is
\* at the English playback or at the delay.
C13_ThaiAfterEnglishAndDelay ==
    [][\A c \in Slots :
          /\ cyc'[c].pc \in {"english", "sleep"} =>
                cyc'[c].requested = 0 /\ cyc'[c].fbCalls = 0
          /\ (cyc'[c].pc = "sleep" /\ cyc[c].pc # "sleep") =>
                cyc[c].pc = "english" /\ cyc[c].au = "requested"
          /\ (ThaiStepEntered(cyc'[c]) /\ ~ThaiStepEntered(cyc[c])) =>
                cyc[c].pc = "sleep" /\ cyc[c].au = "none"
      ]_vars

C13_Witness ==
    \E c \in Slots \ {ProcSlot} :
        /\ cyc[ProcSlot].pc = "done" /\ cyc[ProcSlot].requested >= 1
        /\ cyc[c].pc = "chunk" /\ cyc[c].requested = 1

\* !this.currentThai || this.currentThai === "Translation failed"
DegenerateThai == currentThai = <<>> \/ currentThai = TranslationFailed

\* C14: when the sequencer is entered with an empty text or with the
\* "Translation failed" marker, the run completes in that very step without
\* any synthesis request or fallback speech and without highlighting any
\* WordSpan, and the cycle awaited by processAudio lets processAudio finish;
\* the WordSpans displayed for such a text are never highlighted.
C14_DegenerateResolvesSilently ==
    [][/\ \A c \in Slots :
            (cyc[c].pc = "sleep" /\ cyc'[c].pc # "sleep" /\ DegenerateThai) =>
                /\ cyc'[c].pc = "done"
                /\ cyc'[c].requested = 0 /\ cyc'[c].fbCalls = 0
                /\ synth' = synth
                /\ \A g \in Gens : Highlighted(spans'[g]) \subseteq Highlighted(spans[g])
                /\ c = ProcSlot => ~isProcessing' /\ procPc' = "idle"
       /\ (DegenerateThai' /\ thaiGen' # 0) => Highlighted(spans'[thaiGen']) = {}
      ]_vars

C14_Witness ==
    /\ currentThai = TranslationFailed
    /\ thaiGen # 0
    /\ Len(spans[thaiGen]) = 2
    /\ cyc[ProcSlot].pc = "done" /\ cyc[ProcSlot].requested = 0
    /\ ~isProcessing
    /\ nRec = 1 /\ nShift = 0

\* C15: every WordSpan created by displayThai carries a data-index equal to
\* its position among the words of the text: the k-th word (from 0) is
\* tagged k.
C15_DataIndexIsWordPosition ==
    \A g \in Gens :
        \A k \in 1..Len(spans[g]) : spans[g][k].dataIndex = k - 1

\* C16: once stopRecording has set isProcessing, processAudio eventually
\* finishes and isProcessing is false again, whatever the outcomes of
\* decoding, transcription, translation, playback and speech synthesis.
C16_ProcessingEventuallyEnds == isProcessing ~> ~isProcessing

\* C17: within one sequencer run a failed chunk calls fallbackToWebSpeech
\* exactly once, also when the failure reaches both the error handler and
\* the play() rejection handler, and when the run's promise resolves no
\* utterance spoken by that run is still speaking.
C17_SingleFallbackAwaited ==
    [][\A c \in Slots :
          /\ cyc'[c].pc = "fallback" => cyc'[c].fbCalls = 1
          /\ (cyc[c].pc = "fallback" /\ cyc'[c].pc = "done") => synth'.owner # c
      ]_vars

\* C18: within one playback cycle the recording played and the Thai text
\* handed to the sequencer belong to the same recording: when the cycle
\* enters its Thai step, the text in this.currentThai is the translation of
\* the recording whose blob the cycle played, not a later recording's text
\* and not the text emptied by reset().
C18_SameUtteranceInCycle ==
    [][\A c \in Slots :
          (cyc[c].pc = "sleep" /\ cyc'[c].pc # "sleep") => thaiGen = cyc[c].blob
      ]_vars

\* C19: the status indicator agrees with the control state: while
\* isRecording is true the status is "recording", while isProcessing is true
\* it is "processing", also when a timer armed by showError fires.
C19_StatusAgreesWithControl ==
    /\ isRecording => status = "recording"
    /\ isProcessing => status = "processing"

\* The control flags, the recorder and the processAudio run agree.
ControlConsistent ==
    /\ ~(isRecording /\ isProcessing)
    /\ ~recorder.misused
    /\ isRecording <=> recorder.state = "recording"
    /\ isProcessing <=> procPc # "idle"

\* C20: under any sequence of Space and Shift key events isRecording and
\* isProcessing are never both true, mediaRecorder.start() is called only on
\* an inactive recorder and stop() only on a recording one, and the stops and
\* the processAudio runs correspond one to one: a stop happens only while no
\* run is under way and leaves the recorder's stop event pending, and a run
\* starts only by the delivery of that event.
C20_RecorderAndFlagsConsistent ==
    /\ ControlConsistent
    /\ [][/\ ControlConsistent'
          /\ (isRecording /\ ~isRecording') <=> (procPc # "onstop" /\ procPc' = "onstop")
          /\ (isRecording /\ ~isRecording') => procPc = "idle"
          /\ procPc' = "arrayBuffer" => procPc \in {"onstop", "arrayBuffer"}
          /\ (procPc = "onstop" /\ procPc' # "onstop") => procPc' = "arrayBuffer"
         ]_vars

C20_Witness ==
    /\ nRec = 2
    /\ isProcessing /\ ~isRecording
    /\ procPc = "arrayBuffer"
    /\ recorder.state = "inactive"
    /\ \E c \in Slots : InProgress(c)

====
